---------------------------- MODULE Spec2Model ----------------------------
(***************************************************************************)
(* A model of the json value library: the trait-object value family of     *)
(* src/src/json.rs (Json, JTrue, JFalse, JNull, JString, JNumber, JArray,  *)
(* JObject, array_to_string, hashmap_to_string, JNumber::form_string) and  *)
(* the enum value family of src/src/lib.rs (Value, Number, Json).          *)
(*                                                                         *)
(* Text is a sequence of one-character strings, so that push, push_str and *)
(* pop are sequence operations and the output of a serializer can be       *)
(* compared character by character.                                        *)
(***************************************************************************)
EXTENDS Integers, Sequences, FiniteSets, TLC

VARIABLES
    text,      \* the String the caller is building (argument of form_string / JString.value)
    num,       \* the Result<JNumber, &str> the caller got from form_string, or NoResult
    out,       \* the String the caller got from the last to_string, or NoResult
    src,       \* the i64 whose to_string produced `text`, or NoResult (history of the caller)
    element,   \* Json.element of the root container
    arr,       \* JArray.value of the array the caller is building
    obj,       \* JObject.value of the object the caller is building (entries in iteration order)
    lastIns,   \* per key, the value most recently inserted in `obj` (history of the caller)
    replaced   \* whether the last insert in `obj` returned Some (it found its key present)

vars == <<text, num, out, src, element, arr, obj, lastIns, replaced>>

NoResult == [tag |-> "NoResult"]
Some(x) == [tag |-> "Some", value |-> x]

-----------------------------------------------------------------------------
(* Bounds of the model. *)

\* longest text the caller types character by character
MaxText == 3
\* most decimal digits of the integers the caller formats
MaxDigits == 2
\* most value nodes the caller holds in element, arr and obj together
MaxNodes == 3

-----------------------------------------------------------------------------
(* Characters and text. *)

QUOTE == "\""
TAB == "\t"
NL == "\n"
BACKSLASH == "\\"

DigitChars == <<"0", "1", "2", "3", "4", "5", "6", "7", "8", "9">>

IsDigit(c) == \E i \in 1..10 : DigitChars[i] = c

\* char::to_digit(10) on a decimal digit
DigitVal(c) == (CHOOSE i \in 1..10 : DigitChars[i] = c) - 1

DigitChar(d) == DigitChars[d + 1]

\* String::pop: the text without its last character (no-op on the empty text)
Pop(s) == IF Len(s) = 0 THEN s ELSE SubSeq(s, 1, Len(s) - 1)

Rest(s, i) == SubSeq(s, i, Len(s))

RECURSIVE Reverse(_)
Reverse(s) == IF s = <<>> THEN <<>> ELSE Append(Reverse(Tail(s)), Head(s))

-----------------------------------------------------------------------------
(* 64-bit signed integers.  TLC's integers are 32 bits wide, so an i64 is   *)
(* held as a sign and a magnitude in base 10, least significant digit      *)
(* first, without high zeros (zero is the empty magnitude, never negative). *)
(* The range limits are the real ones.                                     *)

\* i64::MAX = 9223372036854775807, least significant digit first
I64MaxMag == <<7, 0, 8, 5, 7, 7, 4, 5, 8, 6, 3, 0, 2, 7, 3, 3, 2, 2, 9>>
\* |i64::MIN| = 9223372036854775808, least significant digit first
I64MinMag == <<8, 0, 8, 5, 7, 7, 4, 5, 8, 6, 3, 0, 2, 7, 3, 3, 2, 2, 9>>

RECURSIVE MagGreaterFrom(_, _, _)
MagGreaterFrom(a, b, i) ==
    IF i = 0 THEN FALSE
    ELSE IF a[i] # b[i] THEN a[i] > b[i]
    ELSE MagGreaterFrom(a, b, i - 1)

\* a > b on magnitudes
MagGreater(a, b) ==
    IF Len(a) # Len(b) THEN Len(a) > Len(b) ELSE MagGreaterFrom(a, b, Len(a))

\* result * 10 + d on a magnitude
MagMul10Add(mag, d) ==
    IF mag = <<>> THEN (IF d = 0 THEN <<>> ELSE <<d>>) ELSE <<d>> \o mag

I64(neg, mag) == [neg |-> neg /\ mag # <<>>, mag |-> mag]

InI64Range(v) ==
    IF v.neg THEN ~MagGreater(v.mag, I64MinMag) ELSE ~MagGreater(v.mag, I64MaxMag)


-----------------------------------------------------------------------------
(* i64::from_str, as string.parse::<i64>() runs it: an optional sign, then  *)
(* one checked multiply-and-accumulate step per character.                 *)

ParseOk(v) == [ok |-> TRUE, val |-> v]
ParseErr == [ok |-> FALSE]

\* A faulty variant: the multiply and the add are not checked.
i64_step_unchecked(positive, mag, c) ==
    IF ~IsDigit(c) THEN ParseErr ELSE ParseOk(MagMul10Add(mag, DigitVal(c)))

\* One loop step for the digit c: checked_mul(10), then checked_add / checked_sub.
i64_step(positive, mag, c) ==
    IF ~IsDigit(c) THEN ParseErr
    ELSE LET next == MagMul10Add(mag, DigitVal(c))
         IN  IF MagGreater(next, IF positive THEN I64MaxMag ELSE I64MinMag)
             THEN ParseErr
             ELSE ParseOk(next)

RECURSIVE i64_loop(_, _, _, _)
i64_loop(s, i, positive, mag) ==
    IF i > Len(s) THEN ParseOk(I64(~positive, mag))
    ELSE LET r == i64_step(positive, mag, s[i])
         IN  IF r.ok THEN i64_loop(s, i + 1, positive, r.val) ELSE ParseErr

\* A faulty variant: the magnitude is accumulated as a positive number and negated at the end.
i64_from_str_negate_last(s) ==
    IF s = <<>> THEN ParseErr
    ELSE IF s[1] \in {"+", "-"} /\ Len(s) = 1 THEN ParseErr
    ELSE IF s[1] = "+" THEN i64_loop(s, 2, TRUE, <<>>)
    ELSE IF s[1] = "-"
         THEN LET r == i64_loop(s, 2, TRUE, <<>>)
              IN  IF r.ok THEN ParseOk(I64(TRUE, r.val.mag)) ELSE ParseErr
    ELSE i64_loop(s, 1, TRUE, <<>>)

i64_from_str(s) ==
    IF s = <<>> THEN ParseErr
    ELSE IF s[1] \in {"+", "-"} /\ Len(s) = 1 THEN ParseErr
    ELSE IF s[1] = "+" THEN i64_loop(s, 2, TRUE, <<>>)
    ELSE IF s[1] = "-" THEN i64_loop(s, 2, FALSE, <<>>)
    ELSE i64_loop(s, 1, TRUE, <<>>)

RECURSIVE MagChars(_)
\* the decimal digits of a magnitude, most significant first
MagChars(mag) ==
    IF mag = <<>> THEN <<>> ELSE Append(MagChars(Tail(mag)), DigitChar(Head(mag)))

\* i64's Display, as i.to_string() runs it: "-" for a negative value, then the digits.
i64_to_string(v) ==
    IF v.mag = <<>> THEN <<"0">>
    ELSE (IF v.neg THEN <<"-">> ELSE <<>>) \o MagChars(v.mag)

-----------------------------------------------------------------------------
(* f64::from_str, as string.parse::<f64>() runs it.  An f64 is held as the  *)
(* decimal the literal denotes: its significant digits (no leading or      *)
(* trailing zeros) and the position of the decimal point before them, or   *)
(* as inf / nan.  The binary rounding of the decimal is not modelled.      *)

RECURSIVE SkipDigits(_, _)
\* the first index at or after i that holds no decimal digit
SkipDigits(s, i) ==
    IF i <= Len(s) /\ IsDigit(s[i]) THEN SkipDigits(s, i + 1) ELSE i

RECURSIVE StripLeadingZeros(_)
StripLeadingZeros(d) ==
    IF d # <<>> /\ Head(d) = 0 THEN StripLeadingZeros(Tail(d)) ELSE d

RECURSIVE StripTrailingZeros(_)
StripTrailingZeros(d) ==
    IF d # <<>> /\ d[Len(d)] = 0 THEN StripTrailingZeros(Pop(d)) ELSE d

DigitVals(s) == [i \in 1..Len(s) |-> DigitVal(s[i])]

\* the f64 that digs * 10^e10 denotes
F64Finite(neg, digs, e10) ==
    LET lead == StripLeadingZeros(digs)
        sig  == StripTrailingZeros(lead)
    IN  [kind |-> "finite", neg |-> neg, sig |-> sig,
         point |-> IF sig = <<>> THEN 0 ELSE Len(lead) + e10]

F64Inf(neg) == [kind |-> "inf", neg |-> neg, sig |-> <<>>, point |-> 0]
F64NaN == [kind |-> "nan", neg |-> FALSE, sig |-> <<>>, point |-> 0]

RECURSIVE exp_digits(_, _, _)
\* parse_scientific's digit loop: the exponent stops growing at 0x10000
exp_digits(s, i, acc) ==
    IF i > Len(s) THEN acc
    ELSE exp_digits(s, i + 1, IF acc < 65536 THEN 10 * acc + DigitVal(s[i]) ELSE acc)

\* dec2flt's parse_number on the text after the sign
f64_parse_number(s, neg) ==
    LET i1      == SkipDigits(s, 1)
        hasDot  == i1 <= Len(s) /\ s[i1] = "."
        i2      == IF hasDot THEN i1 + 1 ELSE i1
        i3      == SkipDigits(s, i2)
        nFrac   == i3 - i2
        digs    == DigitVals(SubSeq(s, 1, i1 - 1) \o SubSeq(s, i2, i3 - 1))
        hasExp  == i3 <= Len(s) /\ s[i3] \in {"e", "E"}
        i4      == i3 + 1
        expSign == i4 <= Len(s) /\ s[i4] \in {"+", "-"}
        negExp  == i4 <= Len(s) /\ s[i4] = "-"
        i5      == IF expSign THEN i4 + 1 ELSE i4
        i6      == SkipDigits(s, i5)
        expNum  == exp_digits(SubSeq(s, i5, i6 - 1), 1, 0)
    IN  IF (i1 - 1) + nFrac = 0 THEN ParseErr
        ELSE IF hasExp
             THEN IF i6 = i5 \/ i6 <= Len(s) THEN ParseErr
                  ELSE ParseOk(F64Finite(neg, digs,
                                         (IF negExp THEN -expNum ELSE expNum) - nFrac))
        ELSE IF i3 <= Len(s) THEN ParseErr
        ELSE ParseOk(F64Finite(neg, digs, -nFrac))

LowerChar(c) ==
    CASE c = "I" -> "i" [] c = "N" -> "n" [] c = "F" -> "f" [] c = "A" -> "a"
      [] c = "T" -> "t" [] c = "Y" -> "y" [] OTHER -> c

Lower(s) == [i \in 1..Len(s) |-> LowerChar(s[i])]

\* dec2flt's parse_inf_nan on the text after the sign
f64_parse_inf_nan(s, neg) ==
    LET l == Lower(s)
    IN  IF l = <<"n", "a", "n">> THEN ParseOk(F64NaN)
        ELSE IF l = <<"i", "n", "f">> \/ l = <<"i", "n", "f", "i", "n", "i", "t", "y">>
             THEN ParseOk(F64Inf(neg))
        ELSE ParseErr

f64_from_str(s) ==
    IF s = <<>> THEN ParseErr
    ELSE LET neg  == s[1] = "-"
             body == IF s[1] \in {"+", "-"} THEN Tail(s) ELSE s
         IN  IF body = <<>> THEN ParseErr
             ELSE LET r == f64_parse_number(body, neg)
                  IN  IF r.ok THEN r ELSE f64_parse_inf_nan(body, neg)

Zeros(n) == [i \in 1..n |-> "0"]

DigitCharsOf(d) == [i \in 1..Len(d) |-> DigitChar(d[i])]

\* the output of f.to_string() for a decimal that binary64 does not hold exactly enough
\* to give its digits back: the digits then come from the binary rounding
F64Shortest == <<"<shortest round-trip digits>">>

\* f64's Display, as f.to_string() runs it: the shortest decimal that reads back as f,
\* written without an exponent
f64_to_string(f) ==
    LET sign == IF f.neg THEN <<"-">> ELSE <<>>
        n    == Len(f.sig)
        p    == f.point
    IN  IF f.kind = "nan" THEN <<"N", "a", "N">>
        ELSE IF f.kind = "inf" THEN sign \o <<"i", "n", "f">>
        ELSE IF n = 0 THEN sign \o <<"0">>
        ELSE IF n > 15 \/ p > 300 \/ p < -300 THEN F64Shortest
        ELSE IF p >= n THEN sign \o DigitCharsOf(f.sig) \o Zeros(p - n)
        ELSE IF p > 0
             THEN sign \o DigitCharsOf(SubSeq(f.sig, 1, p)) \o <<".">>
                       \o DigitCharsOf(SubSeq(f.sig, p + 1, n))
        ELSE sign \o <<"0", ".">> \o Zeros(-p) \o DigitCharsOf(f.sig)

-----------------------------------------------------------------------------
(* JNumber (json.rs).                                                      *)

Integer(i) == [kind |-> "Integer", v |-> i]
Float(f) == [kind |-> "Float", v |-> f]

JNumber(n) == [tag |-> "JNumber", value |-> n]

Ok(v) == [tag |-> "Ok", value |-> v]
Err(msg) == [tag |-> "Err", value |-> msg]

\* A faulty variant: the float parse is tried first.
form_string_float_first(string) ==
    LET f == f64_from_str(string)
        i == i64_from_str(string)
    IN  IF f.ok THEN Ok(JNumber(Float(f.val)))
        ELSE IF i.ok THEN Ok(JNumber(Integer(i.val)))
        ELSE Err("Unable to parse input")

\* A faulty variant: no fall back to the float parse.
form_string_integer_only(string) ==
    LET i == i64_from_str(string)
    IN  IF i.ok THEN Ok(JNumber(Integer(i.val))) ELSE Err("Unable to parse input")

\* JNumber::form_string
form_string(string) ==
    LET i == i64_from_str(string)
    IN  IF i.ok THEN Ok(JNumber(Integer(i.val)))
        ELSE LET f == f64_from_str(string)
             IN  IF f.ok THEN Ok(JNumber(Float(f.val)))
                 ELSE Err("Unable to parse input")

\* <JNumber as JsonValue>::to_string
JNumber_to_string(n) ==
    IF n.kind = "Integer" THEN i64_to_string(n.v) ELSE f64_to_string(n.v)

-----------------------------------------------------------------------------
(* The value tree.  A tree is held once, as tagged records; the struct     *)
(* family of json.rs (JTrue, JFalse, JNull, JString, JNumber, JArray,      *)
(* JObject behind Box<dyn JsonValue>) and the enum Value of lib.rs are two *)
(* readings of it, each with its own to_string.  A HashMap is the sequence *)
(* of its entries in the order its iterator yields them.                   *)

JTrue == [tag |-> "JTrue"]
JFalse == [tag |-> "JFalse"]
JNull == [tag |-> "JNull"]
JString(s) == [tag |-> "JString", value |-> s]
JArray(vector) == [tag |-> "JArray", value |-> vector]
JObject(hashmap) == [tag |-> "JObject", value |-> hashmap]

Entry(key, v) == [k |-> key, v |-> v]

\* HashMap::new()
HashMap_new == <<>>

\* HashMap::len
HashMap_len(hashmap) == Len(hashmap)

HashMap_keys(hashmap) == {hashmap[i].k : i \in 1..Len(hashmap)}

\* HashMap::get: keys are compared by their text (JString derives Hash, PartialEq, Eq)
HashMap_get(hashmap, key) ==
    IF \E i \in 1..Len(hashmap) : hashmap[i].k = key
    THEN (hashmap[CHOOSE i \in 1..Len(hashmap) : hashmap[i].k = key]).v
    ELSE NoResult

InsertAt(seq, i, e) == SubSeq(seq, 1, i - 1) \o <<e>> \o SubSeq(seq, i, Len(seq))

\* A faulty variant: the entry is added without looking for the key.
HashMap_insert_no_lookup(hashmap, key, v, slot) ==
    InsertAt(hashmap, IF slot > Len(hashmap) + 1 THEN Len(hashmap) + 1 ELSE slot,
             Entry(key, v))

\* HashMap::insert.  A key that is present keeps its bucket and gets the new value; a
\* new key lands in the bucket its hash names, which is position `slot` of the iteration
\* (the table does not grow within the entries held here, so the others keep their order).
HashMap_insert(hashmap, key, v, slot) ==
    IF \E i \in 1..Len(hashmap) : hashmap[i].k = key
    THEN [i \in 1..Len(hashmap) |->
             IF hashmap[i].k = key THEN Entry(hashmap[i].k, v) ELSE hashmap[i]]
    ELSE InsertAt(hashmap, IF slot > Len(hashmap) + 1 THEN Len(hashmap) + 1 ELSE slot,
                  Entry(key, v))

RECURSIVE JsonValue_to_string(_)

RECURSIVE array_to_string_loop(_, _, _)
\* the for loop of array_to_string
array_to_string_loop(vector, i, result) ==
    IF i > Len(vector) THEN result
    ELSE array_to_string_loop(vector, i + 1,
             (result \o JsonValue_to_string(vector[i])) \o <<",", " ">>)

array_to_string(vector) ==
    IF Len(vector) = 0 THEN <<"[", "]">>
    ELSE Append(Pop(Pop(array_to_string_loop(vector, 1, <<"[">>))), "]")

RECURSIVE Indented(_)
\* text with a tab added after each line break
Indented(s) ==
    IF s = <<>> THEN <<>>
    ELSE IF Head(s) = NL THEN <<NL, TAB>> \o Indented(Tail(s))
    ELSE <<Head(s)>> \o Indented(Tail(s))

RECURSIVE hashmap_to_string_loop_indented(_, _, _)
hashmap_to_string_loop_indented(hashmap, i, result) ==
    IF i > Len(hashmap) THEN result
    ELSE hashmap_to_string_loop_indented(hashmap, i + 1,
             ((((result \o <<TAB, QUOTE>>) \o hashmap[i].k.value) \o <<QUOTE, " ", ":", " ">>)
                 \o Indented(JsonValue_to_string(hashmap[i].v))) \o <<",", NL>>)

\* A faulty variant: a nested value is indented one tab deeper than its parent's entries.
hashmap_to_string_indented(hashmap) ==
    IF Len(hashmap) = 0 THEN <<"{", "}">>
    ELSE Pop(Pop(hashmap_to_string_loop_indented(hashmap, 1, <<"{", NL>>))) \o <<NL, "}">>

RECURSIVE hashmap_to_string_loop(_, _, _)
\* the for loop of hashmap_to_string
hashmap_to_string_loop(hashmap, i, result) ==
    IF i > Len(hashmap) THEN result
    ELSE hashmap_to_string_loop(hashmap, i + 1,
             ((((result \o <<TAB, QUOTE>>) \o hashmap[i].k.value) \o <<QUOTE, " ", ":", " ">>)
                 \o JsonValue_to_string(hashmap[i].v)) \o <<",", NL>>)

\* A faulty variant: only one character of the trailing ",\n" is removed.
hashmap_to_string_one_pop(hashmap) ==
    IF Len(hashmap) = 0 THEN <<"{", "}">>
    ELSE Pop(hashmap_to_string_loop(hashmap, 1, <<"{", NL>>)) \o <<NL, "}">>

hashmap_to_string(hashmap) ==
    IF Len(hashmap) = 0 THEN <<"{", "}">>
    ELSE Pop(Pop(hashmap_to_string_loop(hashmap, 1, <<"{", NL>>))) \o <<NL, "}">>

\* <JString as JsonValue>::to_string
JString_to_string(value) == Append(<<QUOTE>> \o value, QUOTE)

\* the to_string of a Box<dyn JsonValue>: the impl of the struct behind the box
JsonValue_to_string(v) ==
    CASE v.tag = "JTrue"   -> <<"T", "r", "u", "e">>
      [] v.tag = "JFalse"  -> <<"F", "a", "l", "s", "e">>
      [] v.tag = "JNull"   -> <<"N", "u", "l", "l">>
      [] v.tag = "JString" -> JString_to_string(v.value)
      [] v.tag = "JNumber" -> JNumber_to_string(v.value)
      [] v.tag = "JArray"  -> array_to_string(v.value)
      [] v.tag = "JObject" -> hashmap_to_string(v.value)

\* Json::new (json.rs): the element is an empty JObject
Json_new == JObject(HashMap_new)

\* A faulty variant: the text of the empty object, whatever the element is.
Json_to_string_fixed(e) == <<"{", "}">>

\* Json::to_string (json.rs)
Json_to_string(e) == JsonValue_to_string(e)

\* Value::to_string (lib.rs), the enum reading of the same tree; Number::Integer holds
\* an isize there, 64 bits wide on the targets modelled
Value_to_string(v) ==
    CASE v.tag = "JNull"   -> <<"N", "u", "l", "l">>
      [] v.tag = "JTrue"   -> <<"T", "r", "u", "e">>
      [] v.tag = "JFalse"  -> <<"F", "a", "l", "s", "e">>
      [] v.tag = "JString" -> v.value
      [] v.tag = "JArray"  -> <<"d", "u", "m", "m", "y">>
      [] v.tag = "JObject" -> <<"d", "u", "m", "m", "y">>
      [] v.tag = "JNumber" ->
            IF v.value.kind = "Integer" THEN i64_to_string(v.value.v)
            ELSE f64_to_string(v.value.v)

-----------------------------------------------------------------------------
(* What the caller supplies. *)

\* the characters the caller types
Alphabet == {"0", "3", "-", "+", ".", "e", "a", QUOTE, BACKSLASH}

\* the literals the caller writes whole: those of the tests, the range limits of i64
\* and their neighbours, and forms of the two number grammars
Literals ==
    { <<"3">>, <<"-", "2">>, <<"0">>, <<"3", ".", "5">>, <<"-", "2", ".", "3">>,
      <<"3", ".", "4">>, <<"-", "3">>, <<"3", ".", "0">>, <<"a", "b", "c">>,
      <<"9","2","2","3","3","7","2","0","3","6","8","5","4","7","7","5","8","0","7">>,
      <<"9","2","2","3","3","7","2","0","3","6","8","5","4","7","7","5","8","0","8">>,
      <<"-","9","2","2","3","3","7","2","0","3","6","8","5","4","7","7","5","8","0","8">>,
      <<"-","9","2","2","3","3","7","2","0","3","6","8","5","4","7","7","5","8","0","9">>,
      <<"+","9","2","2","3","3","7","2","0","3","6","8","5","4","7","7","5","8","0","7">>,
      <<"0","0","9","2","2","3","3","7","2","0","3","6","8","5","4","7","7","5","8","0","7">>,
      <<"1","0","0","0","0","0","0","0","0","0","0","0","0","0","0","0","0","0","0","0">>,
      <<"1", "2", "E", "-", "1">>, <<"1", "e", "+", "2">>, <<"-", ".", "5", "e", "1">>,
      <<"i", "n", "f">>, <<"-", "I", "n", "f", "i", "n", "i", "t", "y">>,
      <<"N", "a", "N">>, <<"+", "n", "a", "n">>, <<"i", "n", "f", "i">>,
      <<"0", "x", "1", "0">>, <<" ", "3">>, <<"1", "_", "0">> }

\* the magnitudes of at most n decimal digits, least significant digit first
Mags(n) ==
    {<<>>} \cup UNION { {m \in [1..k -> 0..9] : m[k] # 0} : k \in 1..n }

\* the integers the caller formats: the short ones and the two ends of the i64 range
IntSamples ==
    { I64(neg, m) : neg \in BOOLEAN, m \in Mags(MaxDigits) }
        \cup { I64(FALSE, I64MaxMag), I64(TRUE, I64MinMag), I64(TRUE, I64MaxMag) }

\* the leaves the caller puts in a tree
LeafValues ==
    { JTrue, JNull, JString(<<"a">>), JNumber(Integer(I64(TRUE, <<2, 3>>))) }

\* the keys the caller inserts under
KeyTexts == { <<"k">>, <<"b", "e">> }

RECURSIVE Nodes(_)
RECURSIVE NodesOf(_, _)
\* the number of value nodes of the first i members of a Vec or a HashMap
NodesOf(members, i) ==
    IF i = 0 THEN 0
    ELSE NodesOf(members, i - 1)
           + Nodes(IF "k" \in DOMAIN members[i] THEN members[i].v ELSE members[i])

Nodes(v) ==
    IF v.tag \in {"JArray", "JObject"} THEN 1 + NodesOf(v.value, Len(v.value)) ELSE 1

TotalNodes(e, a, o) == Nodes(e) + NodesOf(a, Len(a)) + NodesOf(o, Len(o))

NoInserts == [key \in KeyTexts |-> NoResult]

-----------------------------------------------------------------------------
(* The state after construction: Json::new(), an empty Vec, an empty        *)
(* HashMap, an empty String.                                               *)

Init ==
    /\ text = <<>>
    /\ num = NoResult
    /\ out = NoResult
    /\ src = NoResult
    /\ element = Json_new
    /\ arr = <<>>
    /\ obj = HashMap_new
    /\ lastIns = NoInserts
    /\ replaced = FALSE

treeVars == <<element, arr, obj, lastIns, replaced>>
textVars == <<text, num, src>>

-----------------------------------------------------------------------------
(* The caller's steps on a text: it types or writes a text, then hands it   *)
(* to JNumber::form_string or wraps it in a JString, serializes the result *)
(* and drops everything before the next text.                              *)

Fresh == num = NoResult /\ out = NoResult /\ element = Json_new

\* String::push
TypeChar(c) ==
    /\ Fresh
    /\ Len(text) < MaxText
    /\ text' = Append(text, c)
    /\ src' = NoResult
    /\ UNCHANGED <<num, out, treeVars>>

\* "...".to_string() on a literal
LoadLiteral(t) ==
    /\ text' = t
    /\ src' = NoResult
    /\ UNCHANGED <<num, out, treeVars>>

\* i.to_string() on an i64
FormatInteger(i) ==
    /\ text' = i64_to_string(i)
    /\ src' = Some(i)
    /\ UNCHANGED <<num, out, treeVars>>

\* JNumber::form_string(text.clone()): the caller keeps its text
FormString ==
    /\ Fresh
    /\ num' = form_string(text)
    /\ UNCHANGED <<text, out, src, treeVars>>

\* num.unwrap().to_string()
NumberToString ==
    /\ num # NoResult
    /\ num.tag = "Ok"
    /\ out = NoResult
    /\ out' = Some(JNumber_to_string(num.value.value))
    /\ UNCHANGED <<text, num, src, treeVars>>

\* Json::replace_element
replace_element(value) == element' = value

\* json.replace_element(Box::new(JString { value: text }))
ReplaceWithString ==
    /\ Fresh
    /\ replace_element(JString(text))
    /\ UNCHANGED <<text, num, out, src, arr, obj, lastIns, replaced>>

\* json.to_string()
JsonToString ==
    /\ out = NoResult
    /\ num = NoResult
    /\ out' = Some(Json_to_string(element))
    /\ UNCHANGED <<text, num, src, treeVars>>

\* the caller drops what it holds and starts again from Json::new()
Reset ==
    /\ (num # NoResult \/ out # NoResult \/ element # Json_new)
    /\ text' = <<>>
    /\ num' = NoResult
    /\ out' = NoResult
    /\ src' = NoResult
    /\ element' = Json_new
    /\ UNCHANGED <<arr, obj, lastIns, replaced>>

NextText ==
    \/ \E c \in Alphabet : TypeChar(c)
    \/ Fresh /\ text = <<>> /\ \E t \in Literals : LoadLiteral(t)
    \/ Fresh /\ text = <<>> /\ \E i \in IntSamples : FormatInteger(i)
    \/ FormString
    \/ NumberToString
    \/ ReplaceWithString
    \/ JsonToString
    \/ Reset

SpecText == Init /\ [][NextText]_vars

-----------------------------------------------------------------------------
(* The caller's steps on a tree: it appends to a Vec, inserts in a         *)
(* HashMap, moves either into a JArray / JObject inside the other or into  *)
(* the root container, and serializes the root.  A String the caller got   *)
(* from to_string is a temporary: it is gone at the caller's next step.    *)

\* a.value.push(Box::new(v))
ArrayPush(v) ==
    /\ TotalNodes(element, Append(arr, v), obj) <= MaxNodes
    /\ arr' = Append(arr, v)
    /\ out' = NoResult
    /\ UNCHANGED <<textVars, element, obj, lastIns, replaced>>

\* a.value.push(Box::new(JObject { value: h })): h is moved, the caller takes a new map
ArrayPushObject ==
    /\ TotalNodes(element, Append(arr, JObject(obj)), HashMap_new) <= MaxNodes
    /\ arr' = Append(arr, JObject(obj))
    /\ obj' = HashMap_new
    /\ lastIns' = NoInserts
    /\ replaced' = FALSE
    /\ out' = NoResult
    /\ UNCHANGED <<textVars, element>>

\* vec![Box::new(JArray { value: a })]: a is moved into a new Vec
ArrayNest ==
    /\ TotalNodes(element, <<JArray(arr)>>, obj) <= MaxNodes
    /\ arr' = <<JArray(arr)>>
    /\ out' = NoResult
    /\ UNCHANGED <<textVars, element, obj, lastIns, replaced>>

\* h.insert(JString { value: key }, Box::new(v))
ObjectInsert(key, v, slot) ==
    LET h == HashMap_insert(obj, JString(key), v, slot)
    IN  /\ TotalNodes(element, arr, h) <= MaxNodes
        /\ obj' = h
        /\ lastIns' = [lastIns EXCEPT ![key] = v]
        /\ replaced' = (JString(key) \in HashMap_keys(obj))
        /\ out' = NoResult
        /\ UNCHANGED <<textVars, element, arr>>

\* h.insert(JString { value: key }, Box::new(JArray { value: a })): a is moved
ObjectInsertArray(key, slot) ==
    LET h == HashMap_insert(obj, JString(key), JArray(arr), slot)
    IN  /\ TotalNodes(element, <<>>, h) <= MaxNodes
        /\ obj' = h
        /\ arr' = <<>>
        /\ lastIns' = [lastIns EXCEPT ![key] = JArray(arr)]
        /\ replaced' = (JString(key) \in HashMap_keys(obj))
        /\ out' = NoResult
        /\ UNCHANGED <<textVars, element>>

\* a new map with h moved into it under key
ObjectNest(key) ==
    LET h == HashMap_insert(HashMap_new, JString(key), JObject(obj), 1)
    IN  /\ TotalNodes(element, arr, h) <= MaxNodes
        /\ obj' = h
        /\ lastIns' = [NoInserts EXCEPT ![key] = JObject(obj)]
        /\ replaced' = FALSE
        /\ out' = NoResult
        /\ UNCHANGED <<textVars, element, arr>>

\* json.replace_element(Box::new(v))
ReplaceElement(v) ==
    /\ TotalNodes(v, arr, obj) <= MaxNodes
    /\ replace_element(v)
    /\ out' = NoResult
    /\ UNCHANGED <<textVars, arr, obj, lastIns, replaced>>

\* json.replace_element(Box::new(JArray { value: a })): a is moved
ReplaceElementArray ==
    /\ replace_element(JArray(arr))
    /\ arr' = <<>>
    /\ out' = NoResult
    /\ UNCHANGED <<textVars, obj, lastIns, replaced>>

\* json.replace_element(Box::new(JObject { value: h })): h is moved
ReplaceElementObject ==
    /\ replace_element(JObject(obj))
    /\ obj' = HashMap_new
    /\ lastIns' = NoInserts
    /\ replaced' = FALSE
    /\ out' = NoResult
    /\ UNCHANGED <<textVars, arr>>

Next ==
    \/ \E v \in LeafValues : ArrayPush(v)
    \/ ArrayPushObject
    \/ ArrayNest
    \/ \E key \in KeyTexts, v \in LeafValues, slot \in 1..(Len(obj) + 1) :
          ObjectInsert(key, v, slot)
    \/ \E key \in KeyTexts, slot \in 1..(Len(obj) + 1) : ObjectInsertArray(key, slot)
    \/ \E key \in KeyTexts : ObjectNest(key)
    \/ \E v \in LeafValues : ReplaceElement(v)
    \/ ReplaceElementArray
    \/ ReplaceElementObject
    \/ JsonToString

Spec == Init /\ [][Next]_vars

-----------------------------------------------------------------------------
(* Reference forms the properties compare the code against.                *)

RECURSIVE Join(_, _)
\* the parts in order, with sep between consecutive parts
Join(parts, sep) ==
    IF parts = <<>> THEN <<>>
    ELSE IF Len(parts) = 1 THEN parts[1]
    ELSE (parts[1] \o sep) \o Join(Tail(parts), sep)

\* a occurs in b as a run of consecutive characters
Occurs(a, b) ==
    \E i \in 1..(Len(b) - Len(a) + 1) : SubSeq(b, i, i + Len(a) - 1) = a

RECURSIVE SubValues(_)
\* a value and every value nested in it, at any depth
SubValues(v) ==
    {v} \cup
    (IF v.tag = "JArray" THEN UNION {SubValues(v.value[i]) : i \in 1..Len(v.value)}
     ELSE IF v.tag = "JObject"
          THEN UNION {SubValues(v.value[i].v) : i \in 1..Len(v.value)}
     ELSE {})

\* every value the caller holds
StateValues == SubValues(element) \cup SubValues(JArray(arr)) \cup SubValues(JObject(obj))

StateArrays == {v.value : v \in {w \in StateValues : w.tag = "JArray"}}
\* the Arrays of the tree the root container holds
RootArrays == {v.value : v \in {w \in SubValues(element) : w.tag = "JArray"}}
StateObjects == {v.value : v \in {w \in StateValues : w.tag = "JObject"}}

\* the line of one Object entry, its value serialized by S
EntryLine(e, S(_)) == ((<<TAB, QUOTE>> \o e.k.value) \o <<QUOTE, " ", ":", " ">>) \o S(e.v)

\* the text of an Object whose values S serializes
ObjectForm(hashmap, S(_)) ==
    IF Len(hashmap) = 0 THEN <<"{", "}">>
    ELSE (<<"{", NL>>
            \o Join([i \in 1..Len(hashmap) |-> EntryLine(hashmap[i], S)], <<",", NL>>))
            \o <<NL, "}">>

\* the text of an Array whose elements S serializes
ArrayForm(vector, S(_)) ==
    IF Len(vector) = 0 THEN <<"[", "]">>
    ELSE (<<"[">> \o Join([i \in 1..Len(vector) |-> S(vector[i])], <<",", " ">>)) \o <<"]">>

\* the base-10 text of an i64
DecimalText(v) ==
    IF v.mag = <<>> THEN <<"0">>
    ELSE (IF v.neg THEN <<"-">> ELSE <<>>) \o DigitCharsOf(Reverse(v.mag))

RECURSIVE Render(_)
\* the serialization the specification gives for a value
Render(v) ==
    CASE v.tag = "JNull"   -> <<"N", "u", "l", "l">>
      [] v.tag = "JTrue"   -> <<"T", "r", "u", "e">>
      [] v.tag = "JFalse"  -> <<"F", "a", "l", "s", "e">>
      [] v.tag = "JString" -> (<<QUOTE>> \o v.value) \o <<QUOTE>>
      [] v.tag = "JNumber" ->
            IF v.value.kind = "Integer" THEN DecimalText(v.value.v)
            ELSE f64_to_string(v.value.v)
      [] v.tag = "JArray"  -> ArrayForm(v.value, Render)
      [] v.tag = "JObject" -> ObjectForm(v.value, Render)

-----------------------------------------------------------------------------
(* Properties of the root container and of the serializers (Spec).         *)

\* C1: the String json.to_string() returns is the serialization of the value the root
\* container holds at that moment; for a container as Json::new() made it, that is "{}".
C1_RootToString ==
    out # NoResult =>
        /\ out.value = Render(element)
        /\ (element = Json_new => out.value = <<"{", "}">>)

\* C1 witness: the root was replaced by JTrue and serialized.
C1_Witness ==
    /\ element = JTrue
    /\ out # NoResult
    /\ out.value = <<"T", "r", "u", "e">>

C3_ArraySerialization ==
    \A a \in RootArrays :
        /\ array_to_string(a) = ArrayForm(a, JsonValue_to_string)
        /\ Value_to_string(JArray(a)) = ArrayForm(a, Value_to_string)

\* the json.rs half of C3: array_to_string gives the joined form
C3_ArrayToStringJson ==
    \A a \in StateArrays : array_to_string(a) = ArrayForm(a, JsonValue_to_string)

\* C9: in the serialization of the root, every entry of every Object of the tree, at
\* any depth, has its line, which starts a line of the output with one tab and holds
\* the text its value has when serialized on its own as a root; and a tab occurs in
\* the output only as the first character of a line.
C9_FlatIndentation ==
    LET s == Json_to_string(element)
    IN  /\ \A i \in 1..Len(s) : s[i] = TAB => (i > 1 /\ s[i - 1] = NL)
        /\ \A v \in SubValues(element) :
              v.tag = "JObject" =>
                 /\ Occurs(Json_to_string(v), s)
                 /\ \A i \in 1..Len(v.value) :
                       /\ Occurs(EntryLine(v.value[i], Json_to_string), Json_to_string(v))
                       /\ Occurs(<<NL>> \o EntryLine(v.value[i], Json_to_string), s)

\* C9 witness: the root is an Object holding an Object that has an entry, serialized.
C9_Witness ==
    /\ element.tag = "JObject"
    /\ \E i \in 1..Len(element.value) :
          /\ element.value[i].v.tag = "JObject"
          /\ Len(element.value[i].v.value) > 0
    /\ out # NoResult

\* the entries of the map the caller builds: one per key inserted, holding the value
\* inserted last under it
C7_OnePerKey ==
    /\ Cardinality(HashMap_keys(obj)) = Len(obj)
    /\ \A key \in KeyTexts : HashMap_get(obj, JString(key)) = lastIns[key]

\* the step is h.insert(JString { value: key }, Box::new(v)) on the map the caller builds
C7_IsInsert(key, v) ==
    /\ lastIns' = [lastIns EXCEPT ![key] = v]
    /\ replaced' = (JString(key) \in HashMap_keys(obj))
    /\ \E slot \in 1..(Len(obj) + 1) : obj' = HashMap_insert(obj, JString(key), v, slot)

\* what one insert of v under key does to the map the caller builds
C7_InsertStep(key, v) ==
    /\ HashMap_len(obj') =
          IF JString(key) \in HashMap_keys(obj) THEN HashMap_len(obj)
          ELSE HashMap_len(obj) + 1
    /\ HashMap_get(obj', JString(key)) = v
    /\ \A other \in KeyTexts \ {key} :
          HashMap_get(obj', JString(other)) = HashMap_get(obj, JString(other))

\* C7: the map holds one entry per distinct key inserted, with the value inserted last
\* under it; an insert under a key that is present replaces the value and keeps the
\* size, an insert under a new key adds one to the size.
C7_OverwriteLaw ==
    /\ []C7_OnePerKey
    /\ [][\A key \in KeyTexts, v \in LeafValues \cup {JArray(arr)} :
             C7_IsInsert(key, v) => C7_InsertStep(key, v)]_vars

\* C7 witness: the last insert found its key present, and the map still has one entry.
C7_Witness ==
    /\ replaced
    /\ Len(obj) = 1
    /\ lastIns[obj[1].k.value] = obj[1].v

-----------------------------------------------------------------------------
(* The two number grammars, stated on the text as a whole.                 *)

AllDigits(s) == \A i \in 1..Len(s) : IsDigit(s[i])

\* an optional sign, then one or more decimal digits
IsSignedDigits(t) ==
    /\ t # <<>>
    /\ LET d == IF t[1] \in {"+", "-"} THEN Tail(t) ELSE t
       IN  d # <<>> /\ AllDigits(d)

\* the integer a text of IsSignedDigits denotes
DenotedInteger(t) ==
    LET d == IF t[1] \in {"+", "-"} THEN Tail(t) ELSE t
    IN  I64(t[1] = "-", Reverse(StripLeadingZeros(DigitVals(d))))

\* the text is a literal of a 64-bit signed integer
IsI64Literal(t) == IsSignedDigits(t) /\ InI64Range(DenotedInteger(t))

\* digits with at most one point among them, and at least one digit
IsMantissa(m) ==
    /\ \A i \in 1..Len(m) : IsDigit(m[i]) \/ m[i] = "."
    /\ Cardinality({i \in 1..Len(m) : m[i] = "."}) <= 1
    /\ \E i \in 1..Len(m) : IsDigit(m[i])

\* 'e' or 'E', an optional sign, one or more digits
IsExponent(e) ==
    /\ Len(e) >= 2
    /\ e[1] \in {"e", "E"}
    /\ LET d == IF e[2] \in {"+", "-"} THEN Rest(e, 3) ELSE Rest(e, 2)
       IN  d # <<>> /\ AllDigits(d)

\* the text is a literal of a 64-bit float: Sign? ('inf' | 'infinity' | 'nan' | Number)
IsF64Literal(t) ==
    /\ t # <<>>
    /\ LET b == IF t[1] \in {"+", "-"} THEN Tail(t) ELSE t
       IN  \/ Lower(b) \in { <<"i", "n", "f">>, <<"n", "a", "n">>,
                             <<"i", "n", "f", "i", "n", "i", "t", "y">> }
           \/ \E p \in 1..Len(b) :
                 /\ IsMantissa(SubSeq(b, 1, p))
                 /\ (p = Len(b) \/ IsExponent(Rest(b, p + 1)))

IsInteger(r) == r.tag = "Ok" /\ r.value.value.kind = "Integer"
IsFloat(r) == r.tag = "Ok" /\ r.value.value.kind = "Float"

-----------------------------------------------------------------------------
(* Properties of JString and of the number parser (SpecText).              *)

\* C4: a String of payload s serializes to a double quote, s unchanged, a double quote,
\* whatever s holds; by the serializer of json.rs and by the one of lib.rs.
C4_StringSerialization ==
    element.tag = "JString" =>
        /\ JsonValue_to_string(element) = (<<QUOTE>> \o element.value) \o <<QUOTE>>
        /\ Value_to_string(element) = (<<QUOTE>> \o element.value) \o <<QUOTE>>
        /\ (out # NoResult => out.value = (<<QUOTE>> \o element.value) \o <<QUOTE>>)

\* the json.rs half of C4: JString::to_string wraps the payload in double quotes
C4_JStringToStringJson ==
    (element.tag = "JString" /\ out # NoResult) =>
        out.value = (<<QUOTE>> \o element.value) \o <<QUOTE>>

\* C5: a text that is an i64 literal parses to the Integer it denotes, and a Float comes
\* only from a text that is no i64 literal and is an f64 literal.
C5_IntegerFirst ==
    num # NoResult =>
        /\ IsI64Literal(text) =>
              (IsInteger(num) /\ num.value.value.v = DenotedInteger(text))
        /\ IsFloat(num) => (~IsI64Literal(text) /\ IsF64Literal(text))
        /\ IsInteger(num) => IsI64Literal(text)

\* C5 witness: "3.0" was parsed, to a Float.
C5_Witness ==
    /\ text = <<"3", ".", "0">>
    /\ num # NoResult
    /\ IsFloat(num)

\* C6: form_string returns Err exactly for a text that is neither an i64 literal nor an
\* f64 literal, the error is the message "Unable to parse input", and any other text
\* gives Ok with a Number.
C6_ParseError ==
    num # NoResult =>
        /\ num.tag \in {"Ok", "Err"}
        /\ (num.tag = "Err") <=> (~IsI64Literal(text) /\ ~IsF64Literal(text))
        /\ num.tag = "Err" => num.value = "Unable to parse input"
        /\ num.tag = "Ok" =>
              (num.value.tag = "JNumber" /\ num.value.value.kind \in {"Integer", "Float"})

\* C6 witness: "abc" was parsed, to the error.
C6_Witness ==
    /\ text = <<"a", "b", "c">>
    /\ num # NoResult
    /\ num.tag = "Err"

\* C8: the base-10 text of an i64 parses to that Integer, and the Number serializes to
\* the same text.
C8_IntegerRoundTrip ==
    src # NoResult =>
        /\ text = DecimalText(src.value)
        /\ num # NoResult => (IsInteger(num) /\ num.value.value.v = src.value)
        /\ (num # NoResult /\ out # NoResult) => out.value = text

\* C8 witness: i64::MIN was formatted, parsed and serialized.
C8_Witness ==
    /\ src # NoResult
    /\ src.value = I64(TRUE, I64MinMag)
    /\ num # NoResult
    /\ out # NoResult

\* C10: a text of an optional sign and digits whose value lies outside the i64 range
\* parses to Ok with a Float.
C10_OverflowToFloat ==
    (num # NoResult /\ IsSignedDigits(text) /\ ~InI64Range(DenotedInteger(text))) =>
        IsFloat(num)

\* C10 witness: "9223372036854775808" was parsed, to a Float.
C10_Witness ==
    /\ text = <<"9","2","2","3","3","7","2","0","3","6","8","5","4","7","7","5","8","0","8">>
    /\ num # NoResult
    /\ IsFloat(num)

=============================================================================
